---- MODULE Spec2Model ----
(***************************************************************************)
(* Model of the trueflow-module telemetry collector (FlowProvider and the  *)
(* observer hooks Clicks, MouseMoves, FormSubmissions, Scrolls and         *)
(* DetectPageChange).                                                      *)
(*                                                                         *)
(* The component is a React function component.  Its state lives in        *)
(* useState cells; a state setter does not change what the code reads, it  *)
(* queues a value that the next render installs (all setters here pass     *)
(* plain values, so of several queued values the last one wins).  The      *)
(* functions passed to useEffect run after the render is committed, in     *)
(* hook order, each only when one of its dependencies differs from the     *)
(* previous render.  DOM listeners, the polling interval and the socket    *)
(* handlers are closures registered by those effects: they read the        *)
(* values of the render that registered them until an effect replaces      *)
(* them.  DOM events, timer ticks and transport signals can arrive between *)
(* a setter call and the render, and between a render and its effects.     *)
(* Setter calls made in one callback are installed by one render.          *)
(*                                                                         *)
(* Fields marked "history" are not program data: they record, inside a     *)
(* value, the circumstances in which the program created it.               *)
(***************************************************************************)
EXTENDS Integers, Sequences, FiniteSets, TLC

\* ------------------------------------------------------------------ bounds
MaxCaptures == 2     \* records captured by the observers
MaxNavigations == 1  \* changes of window.location.href / document.title
MaxDirectives == 2   \* directive responses delivered by the server
MaxConnects == 2     \* transport "connect" signals
MaxUidChanges == 1   \* changes of the uid prop
MaxSockets == 2      \* sockets created (one per access_key value rendered)
MaxEvents == 6       \* environment events of all these kinds together

\* --------------------------------------------------------------- constants
Categories == {"clicks", "movements", "forms", "scrolls"}

\* order in which the forwarding effect looks at the four records
ForwardOrder == <<"clicks", "movements", "forms", "scrolls">>

Uids == {"userA", "userB"}
Keys == {"key1", "key2"}
Urls == {"/home", "/cart"}
Titles == {"Home", "Cart"}

\* JavaScript undefined and null, and a number
Undefined == [kind |-> "undefined"]
Null == [kind |-> "null"]
Num(v) == [kind |-> "number", v |-> v]

\* the directives the server may answer with: {enabled, id?}
Directives ==
    {[enabled |-> {"clicks"}, id |-> Num(7)],
     [enabled |-> {"forms", "scrolls"}, id |-> Null]}

Str(v) == [kind |-> "string", v |-> v]

\* JavaScript truthiness of the values used here: undefined, null and the
\* empty string are falsy; objects, functions and other strings are truthy
Truthy(v) ==
    /\ v.kind \notin {"undefined", "null"}
    /\ ~(v.kind = "string" /\ v.v = "")

\* data.id ?? undefined
NullishToUndefined(v) == IF v.kind \in {"undefined", "null"} THEN Undefined ELSE v

\* ------------------------------------------------- the DOM and its events
\* an element: its tagName, its onclick property (null or a function), its
\* data-clickable and data-readable attributes as getAttribute returns them
\* (null or a string), and the tagNames of its ancestors, outermost first
Handler == [kind |-> "function"]

Element(tag, onclick, clickable, parents) ==
    [tagName |-> tag, onclick |-> onclick, clickable |-> clickable,
     readable |-> Null, parents |-> parents]

Elements ==
    {Element(tag, onclick, clickable, parents) :
        tag \in {"DIV", "A"}, onclick \in {Null, Handler},
        clickable \in {Null, Str(""), Str("true")},
        parents \in {<<"HTML">>, <<"HTML", "BODY">>}}

\* ref.current?.getBoundingClientRect(): undefined, or a rectangle
Rect(left, top) == [kind |-> "rect", left |-> left, top |-> top]
Rects == {Undefined, Rect(3, 9)}

Window == [innerWidth |-> 800, innerHeight |-> 600]

MouseEvent(target, button, p, rect) ==
    [target |-> target, button |-> button, pageX |-> p[1], pageY |-> p[2],
     rect |-> rect, window |-> Window]

Points == {<<3, 5>>, <<10, 2>>}

MouseDowns ==
    {MouseEvent(t, b, p, r) : t \in Elements, b \in {0, 1, 2}, p \in Points, r \in Rects}

MouseMoveEvents ==
    {MouseEvent(t, 0, p, r) : t \in Elements, p \in Points, r \in Rects}

\* a form control: name, type and value; a form is a sequence of controls
Field(name, type, value) == [name |-> name, type |-> type, value |-> value]

Forms ==
    {<<Field("user", "text", "u1"), Field("pw", "password", "secret")>>,
     <<Field("pin", "text", "1234"), Field("", "text", "x")>>,
     <<Field("tag", "checkbox", "a"), Field("tag", "checkbox", "b")>>,
     <<Field("pw", "text", "shown"), Field("pin", "password", "0000")>>}

\* a submit event: the submitted form, and the names of the password inputs
\* the document holds outside that form
SubmitEvents ==
    {[form |-> f, otherPasswords |-> o] : f \in Forms, o \in {{}, {"pin"}}}

ScrollEvents ==
    {[scrollX |-> 0, scrollY |-> y, window |-> Window] : y \in {0, 40}}

Events(cat) ==
    CASE cat = "clicks" -> MouseDowns
      [] cat = "movements" -> MouseMoveEvents
      [] cat = "forms" -> SubmitEvents
      [] cat = "scrolls" -> ScrollEvents

VARIABLES
    st,         \* values of the latest committed render (props and useState cells)
    prev,       \* values of the render before it (what effect dependencies compare to)
    next,       \* queued setter calls: cell -> <<>> or <<value>>
    effPending, \* the latest render's effects have not run yet
    listeners,  \* category -> sequence of registered DOM handlers (their closures)
    interval,   \* sequence of running poll timers (their closures)
    sockets,    \* sockets created so far; socketRef.current is the last one
    requests,   \* getData requests whose callback has not been invoked
    sent,       \* every message emitted on a socket, in order
    href,       \* window.location.href
    title,      \* document.title
    count,      \* how often each bounded environment step has happened
    link        \* history: what the transport has done since it last went down

vars == <<st, prev, next, effPending, listeners, interval, sockets, requests,
          sent, href, title, count, link>>

Cells == {"connectStatus", "userId", "recordingTypes", "recordingsId",
          "pageDetails"} \cup Categories

\* ------------------------------------------------------- values and helpers
\* a record published by an observer: data is the object passed to the
\* setter, n identifies the capture (its timestamp); history: e, the event,
\* and at, the rendered values at the time of the event
Capture(cat, n, at, e, data) ==
    [kind |-> "record", cat |-> cat, n |-> n, at |-> at, e |-> e, data |-> data]

\* history: the rendered values a record or message is stamped with: whether
\* the category is in the enabled set (en), the session id (rid), how many
\* directives have been rendered (epoch), the page url, the connected flag
At(s, cat) ==
    [en |-> cat \in s.recordingTypes, rid |-> s.recordingsId, epoch |-> s.epoch,
     url |-> s.pageDetails.url, title |-> s.pageDetails.title,
     types |-> s.recordingTypes, conn |-> s.connectStatus]

\* the object DetectPageChange stores; id is the identity of the object;
\* history: from, the url of the rendered page record when it was created
PageDetails(u, t, id, from) ==
    [kind |-> "page", url |-> u, title |-> t, id |-> id, from |-> from]

\* allowRecord as FlowProvider computes it for each observer
AllowRecord(s, cat) == cat \in s.recordingTypes

NoUpdates == [c \in Cells |-> <<>>]

\* a state setter: queue v for the cell (of several queued values the last wins)
SetState(q, cell, v) == [q EXCEPT ![cell] = <<v>>]

\* the value a cell will have after the queued setters are applied
Queued(q, s, cell) == IF q[cell] = <<>> THEN s[cell] ELSE q[cell][1]

\* the render: every cell takes its queued value, the props are as given
\* (history: epoch counts the renders that install a directive)
Rendered(q, s, uid, key) ==
    [uid |-> uid,
     mounted |-> s.mounted,
     epoch |-> IF q["recordingTypes"] # <<>> THEN s.epoch + 1 ELSE s.epoch,
     access_key |-> key,
     connectStatus |-> Queued(q, s, "connectStatus"),
     userId |-> Queued(q, s, "userId"),
     recordingTypes |-> Queued(q, s, "recordingTypes"),
     recordingsId |-> Queued(q, s, "recordingsId"),
     pageDetails |-> Queued(q, s, "pageDetails"),
     clicks |-> Queued(q, s, "clicks"),
     movements |-> Queued(q, s, "movements"),
     forms |-> Queued(q, s, "forms"),
     scrolls |-> Queued(q, s, "scrolls")]

\* source names of the four records
ClickPosition == st.clicks
MousePosition == st.movements
form == st.forms
ScrollPosition == st.scrolls
connectStatus == st.connectStatus
recordingTypes == st.recordingTypes
recordingsId == st.recordingsId
pageDetails == st.pageDetails
userId == st.userId

\* socketRef.current
socketRef == Len(sockets)

NewSocket(key) == [key |-> key, live |-> FALSE, onConnect |-> TRUE, onDisconnect |-> TRUE]

Range(s) == {s[i] : i \in DOMAIN s}

\* ------------------------------------------------------------------- Init
\* The state after the component has mounted: the first render and its
\* effects are done (listeners registered, timer running, socket created
\* and not yet connected, nothing emitted because connectStatus is false).
InitialRender(uid, key, u, t) ==
    [uid |-> uid,
     mounted |-> TRUE,
     epoch |-> 0,
     access_key |-> key,
     connectStatus |-> FALSE,
     userId |-> uid,
     recordingTypes |-> {},
     recordingsId |-> Undefined,
     pageDetails |-> PageDetails(u, t, 0, "none"),
     clicks |-> Undefined,
     movements |-> Undefined,
     forms |-> Undefined,
     scrolls |-> Undefined]

Init ==
    /\ st = InitialRender("userA", "key1", "/home", "Home")
    /\ prev = st
    /\ next = NoUpdates
    /\ effPending = FALSE
    /\ listeners = [c \in Categories |-> <<[allowRecord |-> FALSE]>>]
    /\ interval = <<[url |-> "/home"]>>
    /\ sockets = <<NewSocket("key1")>>
    /\ requests = {}
    /\ sent = <<>>
    /\ href = "/home"
    /\ title = "Home"
    /\ count = [cap |-> 0, nav |-> 0, dir |-> 0, conn |-> 0, uid |-> 0, env |-> 0]
    /\ link = [phase |-> "none", mark |-> 0]

\* ------------------------------------------------------------- observers
\* String.prototype.toLowerCase on the tag names used here
toLowerCase(x) ==
    CASE x = "DIV" -> "div"
      [] x = "A" -> "a"
      [] x = "HTML" -> "html"
      [] x = "BODY" -> "body"
      [] OTHER -> x

clickableTags == {"a", "button", "input", "input[type=\"submit\"]", "[onclick]"}

\* the inner function isClickable of handleMouseClick and handleMouseMove
isClickable(target) ==
    \/ target.onclick # Null
    \/ toLowerCase(target.tagName) \in clickableTags
    \/ Truthy(target.clickable)

clickType(e) ==
    IF e.button = 0 THEN "left" ELSE IF e.button = 2 THEN "right" ELSE ""

\* (mutation: the element name is recorded whether clickable or not)
clickableElementAlways(target) == Str(toLowerCase(target.tagName))

\* element.nodeName.toLowerCase() when isClickable(), else null
clickableElement(target) ==
    IF isClickable(target) THEN Str(toLowerCase(target.tagName)) ELSE Null

\* the while loop: unshift the element, then each parentElement up to the root
tree(target) ==
    IF clickableElement(target) # Null
    THEN target.parents \o <<target.tagName>>
    ELSE <<>>

\* tree.map(tagName).join(" > ").toLowerCase(), undefined when it is empty;
\* the joined string is kept as the sequence of its parts
Path(tags) == [kind |-> "path", tags |-> tags]

treeAsString(target) ==
    LET tr == tree(target)
    IN IF tr = <<>> THEN Undefined
       ELSE Path([i \in DOMAIN tr |-> toLowerCase(tr[i])])

\* (mutation: the container's left edge is not subtracted)
RectLeftIgnored(rect) == 0

\* boundingRect?.left ?? 0 and boundingRect?.top ?? 0
RectLeft(rect) == IF rect.kind = "undefined" THEN 0 ELSE rect.left
RectTop(rect) == IF rect.kind = "undefined" THEN 0 ELSE rect.top

\* the object handleMouseClick passes to setClickPosition
ClickPositionOf(e, n) ==
    [pageX |-> e.pageX - RectLeft(e.rect),
     pageY |-> e.pageY - RectTop(e.rect),
     windowWidth |-> e.window.innerWidth,
     windowHeight |-> e.window.innerHeight,
     timestamp |-> n,
     isClickable |-> isClickable(e.target),
     clickType |-> clickType(e),
     clickableElement |-> clickableElement(e.target),
     tree |-> treeAsString(e.target),
     type |-> "click",
     context |-> e.target.readable]

\* the object handleMouseMove passes to setMousePosition
MousePositionOf(e, n) ==
    [pageX |-> e.pageX - RectLeft(e.rect),
     pageY |-> e.pageY - RectTop(e.rect),
     windowWidth |-> e.window.innerWidth,
     windowHeight |-> e.window.innerHeight,
     timestamp |-> n,
     isClickable |-> isClickable(e.target),
     clickableElement |-> clickableElement(e.target),
     tree |-> treeAsString(e.target),
     type |-> "move",
     context |-> e.target.readable]

\* new FormData(form): the named controls, in order
FormData(f) == SelectSeq(f, LAMBDA c : c.name # "")

\* document.querySelectorAll('input[type="password"]'): the names of the
\* password inputs of the whole document
passwordInputs(e) ==
    {e.form[i].name : i \in {j \in DOMAIN e.form : e.form[j].type = "password"}}
        \cup e.otherPasswords

\* passwordInputs.forEach((input) => data.delete(input.name))
DeleteAll(data, names) == SelectSeq(data, LAMBDA c : c.name \notin names)

\* for (const [key, value] of data.entries()) newData[key] = value
newData(data) ==
    [k \in {data[i].name : i \in DOMAIN data} |->
        LET last == CHOOSE i \in DOMAIN data :
                        /\ data[i].name = k
                        /\ \A j \in DOMAIN data : data[j].name = k => j <= i
        IN data[last].value]

\* the object handleFormSubmissions passes to setForm
FormRecordOf(e) == newData(DeleteAll(FormData(e.form), passwordInputs(e)))

\* the object handleMouseScroll passes to setScrollPosition
ScrollPositionOf(e, n) ==
    [scrollX |-> e.scrollX, scrollY |-> e.scrollY,
     windowWidth |-> e.window.innerWidth,
     windowHeight |-> e.window.innerHeight,
     timestamp |-> n]

\* Each handler is the closure a listener effect registered: h.allowRecord is
\* the allowRecord of the render that registered it.  q is the queue of
\* setter calls, e the event, n the time of the event.
handleMouseClick(h, q, n, at, e) ==
    IF ~h.allowRecord THEN q
    ELSE SetState(q, "clicks", Capture("clicks", n, at, e, ClickPositionOf(e, n)))

handleMouseMove(h, q, n, at, e) ==
    IF ~h.allowRecord THEN q
    ELSE SetState(q, "movements", Capture("movements", n, at, e, MousePositionOf(e, n)))

\* whether handleFormSubmissions calls e.preventDefault()
preventsDefault(h) == h.allowRecord

handleFormSubmissions(h, q, n, at, e) ==
    IF ~h.allowRecord THEN q
    ELSE SetState(q, "forms", Capture("forms", n, at, e, FormRecordOf(e)))

handleMouseScroll(h, q, n, at, e) ==
    IF ~h.allowRecord THEN q
    ELSE SetState(q, "scrolls", Capture("scrolls", n, at, e, ScrollPositionOf(e, n)))

Handle(cat, h, q, n, at, e) ==
    CASE cat = "clicks" -> handleMouseClick(h, q, n, at, e)
      [] cat = "movements" -> handleMouseMove(h, q, n, at, e)
      [] cat = "forms" -> handleFormSubmissions(h, q, n, at, e)
      [] cat = "scrolls" -> handleMouseScroll(h, q, n, at, e)

\* the browser calls every handler registered for the event, in order
RECURSIVE Dispatch(_, _, _, _, _, _)
Dispatch(cat, hs, q, n, at, e) ==
    IF hs = <<>> THEN q
    ELSE Dispatch(cat, Tail(hs), Handle(cat, Head(hs), q, n, at, e), n, at, e)

\* (mutation: a cleanup that leaves the record in place)
CleanupNothing(q, cat) == q

\* clickCleanup, cleanupMoves, formCleanup, scrollCleanup: setX(null)
Cleanup(q, cat) == SetState(q, cat, Null)

\* the callback of the polling timer; c.url is pageDetails.url of the render
\* that started the timer
PollCallback(c, q, s, u, t) ==
    IF u # c.url
    THEN SetState(q, "pageDetails",
                  PageDetails(u, t,
                              IF q["pageDetails"] # <<>>
                              THEN q["pageDetails"][1].id
                              ELSE s.pageDetails.id + 1,
                              s.pageDetails.url))
    ELSE q

RECURSIVE RunTimers(_, _, _, _, _)
RunTimers(cs, q, s, u, t) ==
    IF cs = <<>> THEN q
    ELSE RunTimers(Tail(cs), PollCallback(Head(cs), q, s, u, t), s, u, t)

\* ----------------------------------------------------------- coordinator
\* (mutation: the callback stores the session id and forgets the enabled set)
GetRecordingInstructionsIdOnly(q, data) ==
    SetState(q, "recordingsId", NullishToUndefined(data.id))

\* the getData callback
GetRecordingInstructions(q, data) ==
    SetState(SetState(q, "recordingsId", NullishToUndefined(data.id)),
             "recordingTypes", data.enabled)

\* the two identical effects on [pageDetails]: each emits a page notification
PageEffect(s) ==
    IF ~s.connectStatus THEN <<>>
    ELSE <<[type |-> "page", events |-> s.pageDetails, recordingsId |-> s.recordingsId]>>

\* (mutation: the request is emitted without looking at connectStatus)
GetDataEffectUnguarded(s) == <<[type |-> "getData", userId |-> s.userId]>>

\* the effect on [connectStatus, userId]
GetDataEffect(s) ==
    IF ~s.connectStatus THEN <<>>
    ELSE <<[type |-> "getData", userId |-> s.userId]>>

\* (mutation: sendEvent emits and does not call cleanup)
sendEventKeeping(s, event) ==
    IF s.connectStatus
    THEN [emit |-> <<[type |-> "event", event |-> event,
                      recordingsId |-> s.recordingsId,
                      url |-> s.pageDetails.url, title |-> s.pageDetails.title]>>,
          cleanup |-> FALSE]
    ELSE [emit |-> <<>>, cleanup |-> FALSE]

\* (mutation: sendEvent emits and cleans up without looking at connectStatus)
sendEventAlways(s, event) ==
    [emit |-> <<[type |-> "event", event |-> event,
                 recordingsId |-> s.recordingsId,
                 url |-> s.pageDetails.url, title |-> s.pageDetails.title]>>,
     cleanup |-> TRUE]

\* sendEvent(event, cleanup): the messages it emits, and whether it calls cleanup
sendEvent(s, event) ==
    IF s.connectStatus
    THEN [emit |-> <<[type |-> "event", event |-> event,
                      recordingsId |-> s.recordingsId,
                      url |-> s.pageDetails.url, title |-> s.pageDetails.title]>>,
          cleanup |-> TRUE]
    ELSE [emit |-> <<>>, cleanup |-> FALSE]

\* the forwarding effect: the categories whose record it hands to sendEvent
Forwardable(s) == {c \in Categories : Truthy(s[c])}

RECURSIVE ForwardFrom(_, _)
ForwardFrom(s, i) ==
    IF i > Len(ForwardOrder) THEN <<>>
    ELSE LET c == ForwardOrder[i]
         IN (IF c \in Forwardable(s) THEN sendEvent(s, s[c]).emit ELSE <<>>)
            \o ForwardFrom(s, i + 1)

ForwardingEffect(s) == ForwardFrom(s, 1)

Cleaned(s) == {c \in Forwardable(s) : sendEvent(s, s[c]).cleanup}

RECURSIVE CleanupAll(_, _)
CleanupAll(q, cs) ==
    IF cs = {} THEN q
    ELSE LET c == CHOOSE x \in cs : TRUE
         IN CleanupAll(Cleanup(q, c), cs \ {c})

\* dependency lists
Changed(f) == prev[f] # st[f]
AllowChanged(cat) == AllowRecord(prev, cat) # AllowRecord(st, cat)
ListenerDeps(cat) ==
    IF cat = "forms" THEN AllowChanged(cat) ELSE Changed(cat) \/ AllowChanged(cat)
ForwardDeps ==
    Changed("clicks") \/ Changed("movements") \/ Changed("pageDetails")
        \/ Changed("forms") \/ Changed("scrolls")
\* (mutation: the getData effect depends on userId alone)
GetDataDepsUserOnly == Changed("userId")

\* (mutation: the getData effect depends on connectStatus alone)
GetDataDepsConnectOnly == Changed("connectStatus")

GetDataDeps == Changed("connectStatus") \/ Changed("userId")

\* the cleanup of a listener or timer effect removes what the effect registered
Unsubscribe(hs) == IF hs = <<>> THEN hs ELSE Tail(hs)

\* (mutation: the effect registers the new closure without removing the old one)
ResubscribeKeepingOld(hs, h) == Append(hs, h)

\* a listener or timer effect re-runs: its cleanup removes what it registered,
\* then it registers the closure of this render
Resubscribe(hs, h) == Append(Unsubscribe(hs), h)

\* the connection effect re-runs: cleanup (socket.off("disconnect")) on the
\* old socket, then a new socket becomes socketRef.current
Reconnect(ss, key) ==
    Append([ss EXCEPT ![Len(ss)].onDisconnect = FALSE], NewSocket(key))

\* socketRef.current.emit: the message goes out on (or is buffered by) sock;
\* history: at, the rendered values, and phase, the transport history
Emit(msgs, sock, at, phase) ==
    [i \in 1..Len(msgs) |->
        [msg |-> msgs[i], sock |-> sock, at |-> at, phase |-> phase]]

\* ---------------------------------------------------------------- actions
\* A DOM event of the category reaches the window.
DomEvent(cat, e) ==
    LET n == count.cap + 1
        q == Dispatch(cat, listeners[cat], next, n, At(st, cat), e)
    IN /\ q # next
       /\ count.cap < MaxCaptures
       /\ count.env < MaxEvents
       /\ next' = q
       /\ count' = [count EXCEPT !.cap = n, !.env = @ + 1]
       /\ UNCHANGED <<st, prev, effPending, listeners, interval, sockets,
                      requests, sent, href, title, link>>

\* The document navigates (the URL and/or the title change).
Navigate(u, t) ==
    /\ count.nav < MaxNavigations
    /\ count.env < MaxEvents
    /\ <<u, t>> # <<href, title>>
    /\ href' = u
    /\ title' = t
    /\ count' = [count EXCEPT !.nav = @ + 1, !.env = @ + 1]
    /\ UNCHANGED <<st, prev, next, effPending, listeners, interval, sockets,
                   requests, sent, link>>

\* The polling timer fires.
PollTick ==
    /\ next' = RunTimers(interval, next, st, href, title)
    /\ UNCHANGED <<st, prev, effPending, listeners, interval, sockets,
                   requests, sent, href, title, count, link>>

\* React renders the component: the queued values and the props given by
\* the host become the values the code reads.  A render that changes
\* nothing is not committed.  The effects of a render always run before
\* the next render.
Commit(uid, key) ==
    LET new == Rendered(next, st, uid, key)
    IN /\ st.mounted
       /\ ~effPending
       /\ next' = NoUpdates
       /\ IF new = st
          THEN UNCHANGED <<st, prev, effPending>>
          ELSE /\ st' = new
               /\ prev' = st
               /\ effPending' = TRUE
       /\ UNCHANGED <<listeners, interval, sockets, requests, sent, href,
                      title, link>>

Render ==
    /\ next # NoUpdates
    /\ Commit(st.uid, st.access_key)
    /\ UNCHANGED count

\* The host renders FlowProvider with another uid.
HostSetsUid(u) ==
    /\ u # st.uid
    /\ count.uid < MaxUidChanges
    /\ count.env < MaxEvents
    /\ Commit(u, st.access_key)
    /\ count' = [count EXCEPT !.uid = @ + 1, !.env = @ + 1]

\* The host renders FlowProvider with another access_key.
HostSetsKey(k) ==
    /\ k # st.access_key
    /\ Len(sockets) < MaxSockets
    /\ count.env < MaxEvents
    /\ Commit(st.uid, k)
    /\ count' = [count EXCEPT !.env = @ + 1]

\* what the effects of the latest render emit, in hook order
EffectsEmit ==
    (IF Changed("pageDetails") THEN PageEffect(st) \o PageEffect(st) ELSE <<>>)
        \o (IF GetDataDeps THEN GetDataEffect(st) ELSE <<>>)
        \o (IF ForwardDeps THEN ForwardingEffect(st) ELSE <<>>)

\* the setter calls the effects of the latest render make
EffectsSet ==
    LET q == IF Changed("uid") THEN SetState(next, "userId", st.uid) ELSE next
    IN IF ForwardDeps THEN CleanupAll(q, Cleaned(st)) ELSE q

\* The effects of the latest render run, in hook order.
Effects ==
    LET ss == IF Changed("access_key") THEN Reconnect(sockets, st.access_key)
              ELSE sockets
        all == sent \o Emit(EffectsEmit, Len(ss), At(st, "any"), link.phase)
    IN /\ effPending
       /\ effPending' = FALSE
       /\ prev' = st
       /\ listeners' = [c \in Categories |->
                          IF ListenerDeps(c)
                          THEN Resubscribe(listeners[c], [allowRecord |-> AllowRecord(st, c)])
                          ELSE listeners[c]]
       /\ interval' = IF Changed("pageDetails")
                      THEN Resubscribe(interval, [url |-> st.pageDetails.url])
                      ELSE interval
       /\ sockets' = ss
       /\ sent' = all
       /\ requests' = requests \cup
                        {[n |-> i, sock |-> all[i].sock, userId |-> all[i].msg.userId] :
                           i \in {j \in Len(sent) + 1 .. Len(all) : all[j].msg.type = "getData"}}
       /\ next' = EffectsSet
       /\ UNCHANGED <<st, href, title, count, link>>

\* The host removes FlowProvider from the tree: the cleanup of every effect
\* runs (listeners removed, timer cleared, socket.off("disconnect")); queued
\* setter calls are dropped and later ones have no effect.
Unmount ==
    /\ st.mounted
    /\ ~effPending
    /\ st' = [st EXCEPT !.mounted = FALSE]
    /\ next' = NoUpdates
    /\ listeners' = [c \in Categories |-> Unsubscribe(listeners[c])]
    /\ interval' = Unsubscribe(interval)
    /\ sockets' = [sockets EXCEPT ![Len(sockets)].onDisconnect = FALSE]
    /\ UNCHANGED <<prev, effPending, requests, sent, href, title, count, link>>

\* The transport of socket s completes its handshake: "connect" fires.
SocketConnect(s) ==
    /\ ~sockets[s].live
    /\ count.conn < MaxConnects
    /\ count.env < MaxEvents
    /\ sockets' = [sockets EXCEPT ![s].live = TRUE]
    /\ next' = IF sockets[s].onConnect THEN SetState(next, "connectStatus", TRUE) ELSE next
    /\ count' = [count EXCEPT !.conn = @ + 1, !.env = @ + 1]
    /\ link' = IF s = socketRef /\ link.phase = "down"
               THEN [phase |-> "up", mark |-> Len(sent)]
               ELSE link
    /\ UNCHANGED <<st, prev, effPending, listeners, interval, requests, sent, href, title>>

\* The transport of socket s goes down: "disconnect" fires.  Acknowledgements
\* of requests sent on the lost connection can no longer arrive.
SocketDisconnect(s) ==
    /\ sockets[s].live
    /\ count.env < MaxEvents
    /\ sockets' = [sockets EXCEPT ![s].live = FALSE]
    /\ next' = IF sockets[s].onDisconnect THEN SetState(next, "connectStatus", FALSE) ELSE next
    /\ requests' = {r \in requests : r.sock # s}
    /\ count' = [count EXCEPT !.env = @ + 1]
    /\ link' = IF s = socketRef THEN [phase |-> "down", mark |-> 0] ELSE link
    /\ UNCHANGED <<st, prev, effPending, listeners, interval, sent, href, title>>

\* The server answers a getData request: the callback is invoked with data.
DirectiveArrives(r, data) ==
    /\ sockets[r.sock].live
    /\ count.dir < MaxDirectives
    /\ count.env < MaxEvents
    /\ requests' = requests \ {r}
    /\ next' = GetRecordingInstructions(next, data)
    /\ count' = [count EXCEPT !.dir = @ + 1, !.env = @ + 1]
    /\ link' = IF link.phase = "up" /\ r.n > link.mark
               THEN [phase |-> "fresh", mark |-> 0]
               ELSE link
    /\ UNCHANGED <<st, prev, effPending, listeners, interval, sockets, sent, href, title>>

\* ----------------------------------------------------------- specifications
\* one event of each kind, for the specifications that are not about what
\* a record holds
SomeEvent(cat) ==
    CASE cat = "clicks" ->
           MouseEvent(Element("A", Null, Null, <<"HTML", "BODY">>), 0, <<3, 5>>, Rect(3, 9))
      [] cat = "movements" ->
           MouseEvent(Element("DIV", Null, Null, <<"HTML", "BODY">>), 0, <<10, 2>>, Rect(3, 9))
      [] cat = "forms" ->
           [form |-> <<Field("user", "text", "u1"), Field("pw", "password", "secret")>>,
            otherPasswords |-> {}]
      [] cat = "scrolls" ->
           [scrollX |-> 0, scrollY |-> 40, window |-> Window]

Observed == \E cat \in Categories : DomEvent(cat, SomeEvent(cat))
ObservedAny == \E cat \in Categories : \E e \in Events(cat) : DomEvent(cat, e)
Navigated == \E u \in Urls, t \in Titles : Navigate(u, t)
UidChanged == \E u \in Uids : HostSetsUid(u)
KeyChanged == \E k \in Keys : HostSetsKey(k)
Connected == \E s \in DOMAIN sockets : SocketConnect(s)
Disconnected == \E s \in DOMAIN sockets : SocketDisconnect(s)
Directed == \E r \in requests, data \in Directives : DirectiveArrives(r, data)

Unmounted == Unmount

Next ==
    \/ Unmounted
    \/ Observed
    \/ Navigated
    \/ PollTick
    \/ Render
    \/ UidChanged
    \/ KeyChanged
    \/ Effects
    \/ Connected
    \/ Disconnected
    \/ Directed

Spec == Init /\ [][Next]_vars

\* the observers and the coordinator under one access_key, uid and page
NextForward ==
    \/ Observed
    \/ Render
    \/ Effects
    \/ Connected
    \/ Disconnected
    \/ Directed

SpecForward == Init /\ [][NextForward]_vars

\* the page-change watcher and the coordinator
NextPage ==
    \/ Navigated
    \/ PollTick
    \/ Render
    \/ Effects
    \/ Connected
    \/ Disconnected

SpecPage == Init /\ [][NextPage]_vars

\* The observers, the page-change watcher and the coordinator in a running
\* session: the state SpecForward reaches once the socket has connected, the
\* getData request has been answered with the directive that enables forms
\* and scrolls, and that directive has been rendered and its effects run.
InSession ==
    /\ st = [InitialRender("userA", "key1", "/home", "Home") EXCEPT
               !.connectStatus = TRUE,
               !.recordingTypes = {"forms", "scrolls"},
               !.epoch = 1]
    /\ prev = st
    /\ next = NoUpdates
    /\ effPending = FALSE
    /\ listeners = [c \in Categories |-> <<[allowRecord |-> c \in {"forms", "scrolls"}]>>]
    /\ interval = <<[url |-> "/home"]>>
    /\ sockets = <<[NewSocket("key1") EXCEPT !.live = TRUE]>>
    /\ requests = {}
    /\ sent = Emit(<<[type |-> "getData", userId |-> "userA"]>>, 1,
                    At([st EXCEPT !.recordingTypes = {}, !.epoch = 0], "any"), "none")
    /\ href = "/home"
    /\ title = "Home"
    /\ count = [cap |-> 0, nav |-> 0, dir |-> 1, conn |-> 1, uid |-> 0, env |-> 2]
    /\ link = [phase |-> "none", mark |-> 0]

NextSession ==
    \/ Observed
    \/ Navigated
    \/ PollTick
    \/ Render
    \/ Effects
    \/ Connected
    \/ Disconnected

SpecSession == InSession /\ [][NextSession]_vars

\* What the observers publish for the events of Events(cat): a session in
\* which the socket is connected and a directive enabling every category,
\* with id 7, has been rendered and its effects have run; one more event of
\* any kind arrives and its record is forwarded.
InCapture ==
    /\ st = [InitialRender("userA", "key1", "/home", "Home") EXCEPT
               !.connectStatus = TRUE,
               !.recordingTypes = Categories,
               !.recordingsId = Num(7),
               !.epoch = 1]
    /\ prev = st
    /\ next = NoUpdates
    /\ effPending = FALSE
    /\ listeners = [c \in Categories |-> <<[allowRecord |-> TRUE]>>]
    /\ interval = <<[url |-> "/home"]>>
    /\ sockets = <<[NewSocket("key1") EXCEPT !.live = TRUE]>>
    /\ requests = {}
    /\ sent = Emit(<<[type |-> "getData", userId |-> "userA"]>>, 1,
                    At(InitialRender("userA", "key1", "/home", "Home"), "any"), "none")
    /\ href = "/home"
    /\ title = "Home"
    /\ count = [cap |-> MaxCaptures - 1, nav |-> 0, dir |-> 1, conn |-> 1,
                uid |-> 0, env |-> 2]
    /\ link = [phase |-> "none", mark |-> 0]

NextCapture ==
    \/ ObservedAny
    \/ Render
    \/ Effects

SpecCapture == InCapture /\ [][NextCapture]_vars

\* observers, page changes, directives and transport together
NextAll ==
    \/ Observed
    \/ Navigated
    \/ PollTick
    \/ Render
    \/ Effects
    \/ Connected
    \/ Disconnected
    \/ Directed

SpecAll == InSession /\ [][NextAll]_vars

\* mounting, running and tearing down: the listeners and the timer
NextMount ==
    \/ Observed
    \/ Navigated
    \/ PollTick
    \/ Render
    \/ Effects
    \/ Connected
    \/ Directed
    \/ Unmounted

SpecMount == Init /\ [][NextMount]_vars

\* the host changes the uid prop
NextUid ==
    \/ UidChanged
    \/ Render
    \/ Effects
    \/ Connected
    \/ Disconnected
    \/ Directed

SpecUid == Init /\ [][NextUid]_vars

\* the host changes the access_key prop
NextKey ==
    \/ KeyChanged
    \/ Render
    \/ Effects
    \/ Connected
    \/ Disconnected

SpecKey == Init /\ [][NextKey]_vars

\* ================================================================== claims
\* the interaction messages, page notifications and getData requests emitted
EventMsgs == {i \in DOMAIN sent : sent[i].msg.type = "event"}
PageMsgs == {i \in DOMAIN sent : sent[i].msg.type = "page"}
GetDataMsgs == {i \in DOMAIN sent : sent[i].msg.type = "getData"}

\* the records an observer holds: the one queued by its setter and the one rendered
Held(c) ==
    (IF next[c] # <<>> /\ Truthy(next[c][1]) THEN {next[c][1]} ELSE {})
        \cup (IF Truthy(st[c]) THEN {st[c]} ELSE {})

\* C1: a DOM event that arrives while its category is not in the enabled set
\* produces no record and no "events" message: every record an observer
\* holds, and every record forwarded, was captured while its category was in
\* the enabled set.
C1_DisabledEventProducesNothing ==
    /\ \A c \in Categories : \A r \in Held(c) : r.at.en
    /\ \A i \in EventMsgs : sent[i].msg.event.at.en

\* C2: after the transport has disconnected, no interaction record is
\* forwarded until the transport has reconnected and a directive answering a
\* getData request issued after that reconnect has been applied.
C2_NoForwardingUntilFreshDirective ==
    \A i \in EventMsgs : sent[i].phase \in {"none", "fresh"}

\* C2 as amended: an interaction record is forwarded only while the
\* coordinator's connected flag is true, so none is forwarded between the
\* render of a disconnect and the render of the next connect; after that
\* forwarding resumes under the directive applied before the disconnect.
C2_ForwardedOnlyWhileFlagUp ==
    \A i \in EventMsgs : sent[i].at.conn

\* a record was forwarded after a reconnect and before any fresh directive
C2_Witness ==
    \E i \in EventMsgs : sent[i].phase = "up" /\ sent[i].at.conn

\* C3: between the application of a directive D and the next one, an event of
\* a category outside D.enabled produces no forwarded message, and a record
\* captured and forwarded under D carries recordingsId D.id.
C3_ForwardedUnderDirective ==
    \A i \in EventMsgs :
        LET e == sent[i].msg.event
        IN /\ e.at.en
           /\ e.at.epoch = sent[i].at.epoch => sent[i].msg.recordingsId = e.at.rid

\* C4: when the uid prop changes, the uid effect queues it as userId; when
\* the changed userId is rendered while connected, the effects emit exactly
\* one getData request, carrying it; and the enabled set and the session id
\* change only in a render that installs what the directive callback queued.
NewMsgs == {i \in DOMAIN sent' : i > Len(sent)}

C4_UidStep ==
    /\ (Effects /\ prev.uid # st.uid) => next'["userId"] = <<st.uid>>
    /\ (Effects /\ prev.userId # st.userId /\ st.connectStatus) =>
          /\ Cardinality({i \in NewMsgs : sent'[i].msg.type = "getData"}) = 1
          /\ \A i \in NewMsgs :
                sent'[i].msg.type = "getData" => sent'[i].msg.userId = st.userId
    /\ (st.recordingTypes' # st.recordingTypes \/ st.recordingsId' # st.recordingsId) =>
          next["recordingTypes"] # <<>> /\ next["recordingsId"] # <<>>
    /\ (next'["recordingTypes"] # next["recordingTypes"] /\ next'["recordingTypes"] # <<>>) =>
          \E r \in requests, data \in Directives : DirectiveArrives(r, data)

C4_UidChangeRequestsDirectiveOnce == [][C4_UidStep]_vars

\* the uid changed while connected under the first directive: the request for
\* the new user is out and unanswered, the first directive is still in effect
C4_Witness ==
    /\ st.uid = "userB"
    /\ st.connectStatus
    /\ count.conn = 1
    /\ \E r \in requests : r.userId = "userB"
    /\ st.recordingTypes = {"clicks"}
    /\ st.recordingsId = Num(7)

\* C5: while connected, each change of the page record causes exactly one
\* page notification: no two notifications carry the same page record.
C5_OneNotificationPerPageChange ==
    \A i, j \in PageMsgs : sent[i].msg.events.id = sent[j].msg.events.id => i = j

\* C6: no captured record is forwarded in more than one "events" message.
C6_RecordForwardedAtMostOnce ==
    \A i, j \in EventMsgs : sent[i].msg.event.n = sent[j].msg.event.n => i = j

\* a record was forwarded after the page record changed while it was pending,
\* and a record of another category was forwarded as well
C6_Witness ==
    \E i, j \in EventMsgs :
        /\ sent[i].msg.url # sent[i].msg.event.at.url
        /\ sent[j].msg.event.cat # sent[i].msg.event.cat

\* C7: in a step taken while the connected flag is false nothing is emitted
\* and no observer cleanup is invoked.
C7_Step ==
    ~st.connectStatus =>
        /\ sent' = sent
        /\ \A c \in Categories : next'[c] = <<Null>> => next[c] = <<Null>>

C7_NothingWhileDisconnected == [][C7_Step]_vars

\* disconnected, with a record held by an observer and a changed page record
\* whose effects have run: nothing was emitted for them
C7_Witness ==
    /\ ~st.connectStatus
    /\ ~effPending
    /\ \E c \in Categories : Truthy(st[c])
    /\ st.pageDetails.id > 0
    /\ PageMsgs = {}
    /\ EventMsgs = {}

\* C8: the page record changes only on a tick at which the current URL
\* differs from the URL stored in the page record: every page record was
\* created with a URL different from the one the rendered record had then.
PageRecords ==
    {st.pageDetails} \cup
        (IF next["pageDetails"] # <<>> THEN {next["pageDetails"][1]} ELSE {})

C8_PageRecordChangesOnlyOnNewUrl ==
    \A p \in PageRecords : p.url # p.from

\* C9: the enabled set and the session id are replaced together: the rendered
\* pair is the initial one or the pair of one directive (id absent when the
\* directive has none).
DirectivePairs ==
    {<<d.enabled, IF d.id.kind = "number" THEN d.id ELSE Undefined>> : d \in Directives}

C9_DirectiveAppliedAtomically ==
    <<st.recordingTypes, st.recordingsId>> \in {<<{}, Undefined>>} \cup DirectivePairs

\* a directive without id replaced one with id 7 under which a record had
\* been forwarded
C9_Witness ==
    /\ st.recordingTypes = {"forms", "scrolls"}
    /\ st.recordingsId = Undefined
    /\ \E i \in EventMsgs : sent[i].msg.recordingsId = Num(7)

\* C10: at most one transport connection is live, and a superseded socket has
\* no handler left that could change the connected flag.
C10_OneLiveConnection ==
    /\ Cardinality({i \in DOMAIN sockets : sockets[i].live}) <= 1
    /\ \A i \in DOMAIN sockets :
          i # socketRef => ~sockets[i].onConnect /\ ~sockets[i].onDisconnect

\* C11: while mounted every observer has at most one listener registered
\* and at most one polling timer runs; after the subtree is torn down no
\* listener and no timer remains.
C11_ListenersAndTimerTornDown ==
    /\ \A c \in Categories : Len(listeners[c]) <= 1
    /\ Len(interval) <= 1
    /\ ~st.mounted => /\ \A c \in Categories : listeners[c] = <<>>
                      /\ interval = <<>>

\* torn down after the listeners were re-registered for a directive and a
\* capture, and the timer for a new page record
C11_Witness ==
    /\ ~st.mounted
    /\ st.recordingTypes # {}
    /\ count.cap > 0
    /\ st.pageDetails.id > 0

\* the records of a category that an observer holds or that were forwarded
Published(c) ==
    Held(c) \cup {sent[i].msg.event : i \in {j \in EventMsgs : sent[j].msg.event.cat = c}}

PointerRecords == Published("clicks") \cup Published("movements")

\* C12: a click or move record whose target carries a data-clickable
\* attribute, whatever its value (the empty string included) and whatever the
\* tag, has isClickable = true, clickableElement = the lowercase tag name and
\* a tree.
C12_DataClickableMarksClickable ==
    \A r \in PointerRecords :
        r.e.target.clickable # Null =>
            /\ r.data.isClickable
            /\ r.data.clickableElement = Str(toLowerCase(r.e.target.tagName))
            /\ r.data.tree # Undefined

\* C13: a click or move record whose target has a tag outside {a, button,
\* input}, no click handler and no data-clickable attribute has isClickable
\* false and neither clickableElement nor tree; and in every such record the
\* tree is present exactly when clickableElement is non-null, exactly when
\* isClickable is true.
C13_ClassifierConsistent ==
    \A r \in PointerRecords :
        /\ ( /\ toLowerCase(r.e.target.tagName) \notin {"a", "button", "input"}
             /\ r.e.target.onclick = Null
             /\ r.e.target.clickable = Null )
           => /\ ~r.data.isClickable
              /\ r.data.clickableElement = Null
              /\ r.data.tree = Undefined
        /\ (r.data.tree # Undefined) <=> (r.data.clickableElement # Null)
        /\ (r.data.clickableElement # Null) <=> r.data.isClickable

\* a move over a plain div (no handler, no attribute) was forwarded: not
\* clickable, no clickableElement, no tree
C13_Witness ==
    \E i \in EventMsgs :
        LET r == sent[i].msg.event
        IN /\ r.cat = "movements"
           /\ r.e.target.tagName = "DIV"
           /\ r.e.target.onclick = Null
           /\ r.e.target.clickable = Null
           /\ ~r.data.isClickable
           /\ r.data.tree = Undefined

\* C14: a Form Record has no key that is the name of a password input of the
\* submitted form, and every named non-password control of the submitted
\* form is in the record with its submitted value.
C14_FormRecordFields ==
    \A r \in Published("forms") :
        \A i \in DOMAIN r.e.form :
            LET c == r.e.form[i]
            IN /\ c.type = "password" => c.name \notin DOMAIN r.data
               /\ (c.type # "password" /\ c.name # "") =>
                     /\ c.name \in DOMAIN r.data
                     /\ r.data[c.name] = c.value

C16_NewerCaptureNotDiscarded ==
    count.cap > 0 =>
        \E c \in Categories : \E r \in Published(c) : r.n = count.cap

\* C17: a record captured while disconnected stays pending, and the
\* reconnect itself drains it: once the connected flag is rendered true and
\* the effects of that render have run, a record that was captured while
\* the flag was false is no longer pending: if an observer still holds it,
\* it has been forwarded.
C17_ReconnectDrainsPending ==
    (st.connectStatus /\ ~effPending) =>
        \A c \in Categories :
            (Truthy(st[c]) /\ ~st[c].at.conn) =>
                \E i \in EventMsgs : sent[i].msg.event = st[c]

\* C18: every transition of the connected flag from false to true, the
\* first connect and every reconnect, is followed by a getData request
\* carrying the current user id: the effects of the render that installs the
\* transition emit exactly one; and no getData request is emitted while the
\* flag is false.
C18_Step ==
    /\ (Effects /\ ~prev.connectStatus /\ st.connectStatus) =>
          /\ Cardinality({i \in NewMsgs : sent'[i].msg.type = "getData"}) = 1
          /\ \A i \in NewMsgs :
                sent'[i].msg.type = "getData" => sent'[i].msg.userId = st.userId
    /\ ~st.connectStatus =>
          \A i \in NewMsgs : sent'[i].msg.type # "getData"

C19_ForwardedInCaptureOrder ==
    \A i, j \in EventMsgs :
        (i < j /\ sent[i].msg.event.cat = sent[j].msg.event.cat) =>
            sent[i].msg.event.n < sent[j].msg.event.n

\* two records of one category were forwarded one after the other
C19_Witness ==
    \E i, j \in EventMsgs :
        /\ i < j
        /\ sent[i].msg.event.cat = sent[j].msg.event.cat
        /\ sent[i].msg.event.n < sent[j].msg.event.n

\* C20: a submit event's default action is suppressed if and only if forms
\* is in the enabled set at the time of the event: in every state, the
\* registered submit handler calls preventDefault exactly when forms is
\* enabled in the rendered state, and every Form Record comes from a
\* submission that arrived while forms was enabled.
C20_PreventDefaultIffEnabled ==
    /\ st.mounted =>
          ((\E i \in DOMAIN listeners["forms"] : preventsDefault(listeners["forms"][i]))
              <=> AllowRecord(st, "forms"))
    /\ \A r \in Published("forms") : r.at.en

\* C21: every forwarded interaction message carries the session
\* id and the page url and title that were in effect when its record was
\* captured.
C21_CarriesIdAndPageOfCapture ==
    \A i \in EventMsgs :
        /\ sent[i].msg.recordingsId = sent[i].msg.event.at.rid
        /\ sent[i].msg.url = sent[i].msg.event.at.url
        /\ sent[i].msg.title = sent[i].msg.event.at.title

\* C22: once a directive that omits a category has been applied, no
\* interaction message carrying a record of that category is emitted until
\* a later directive enables it again: every forwarded record's category is
\* in the enabled set of the render that forwards it, also when the record
\* was captured before the directive arrived and was still pending.
C22_NoMessageOfOmittedCategory ==
    \A i \in EventMsgs : sent[i].msg.event.cat \in sent[i].at.types

\* a response is applied only if it answers the latest getData request issued
C23_Step ==
    \A r \in requests :
        (requests' = requests \ {r} /\ count'.dir = count.dir + 1) =>
            \A i \in GetDataMsgs : i <= r.n

\* C23: the enabled set and the session id in effect come from the response
\* to the most recently issued getData request: once a later request has
\* been issued, the response to an earlier request is never applied, so it
\* cannot overwrite the state set by, or due from, the later request.
C23_LateResponseNeverOverwrites == [][C23_Step]_vars
====
